---- MODULE Spec2Model ----
(***************************************************************************)
(* LeetTrack: the in-memory record store (server/storage.ts), the problem  *)
(* routes and the profile analysis / comparison routes (server/routes.ts). *)
(*                                                                         *)
(* Time.  An instant (a JavaScript Date) is an integer number of ticks,    *)
(* TicksPerDay ticks to a UTC day.  The "YYYY-MM-DD" string formatDate     *)
(* returns is modelled by the day number  instant \div TicksPerDay ;       *)
(* string order on those strings (localeCompare) is the order of the day   *)
(* numbers for years 0000..9999.  A dateSolved string is modelled by the   *)
(* instant  new Date(dateSolved)  parses it to: a date-only string is a    *)
(* multiple of TicksPerDay (UTC midnight), a string with a time is not.    *)
(* The server's time zone is taken to be UTC, so Date.setDate moves an     *)
(* instant by whole days.                                                  *)
(*                                                                         *)
(* Numbers.  Math.round(n/d) is computed exactly on integers; this agrees  *)
(* with the IEEE-754 evaluation of every expression modelled here on the   *)
(* ranges the scores are not yet capped on.                                *)
(***************************************************************************)
EXTENDS Integers, Sequences, FiniteSets, TLC

VARIABLES
  problems,          \* MemStorage.problems: id -> Problem (Map, insertion order = id order)
  problemIdCounter,  \* MemStorage.problemIdCounter
  topics,            \* MemStorage.topics: id -> Topic
  topicIdCounter,    \* MemStorage.topicIdCounter
  problemTopics,     \* MemStorage.problemTopics: id -> ProblemTopic
  problemTopicIdCounter,  \* MemStorage.problemTopicIdCounter
  now,               \* the wall clock read by new Date(), in ticks
  upstream,          \* what the LeetCode API answers for each username
  cmp,               \* the compare-profiles request in flight (its promises)
  logged,            \* the last "Score calculation" console.log of analyze-profile
  res                \* the last HTTP response sent

vars == <<problems, problemIdCounter, topics, topicIdCounter, problemTopics,
          problemTopicIdCounter, now, upstream, cmp, logged, res>>

\* The topic and problem-topic maps of the store with their id counters.
topicVars == <<topics, topicIdCounter, problemTopics, problemTopicIdCounter>>

(***************************************************************************)
(* Bounds of the model.                                                    *)
(***************************************************************************)
MaxProblems == 2
TicksPerDay == 2
TodayDay == 40
MaxUsernames == 3
MaxProblemTopics == 2
MaxRecent == 6

(***************************************************************************)
(* JavaScript arithmetic.                                                  *)
(***************************************************************************)
\* Math.round(n / d) for d > 0: nearest integer, ties toward +Infinity.
JSRound(n, d) == (2 * n + d) \div (2 * d)

\* Math.ceil(n / d) for d > 0.
JSCeil(n, d) == -((-n) \div d)

\* Math.floor(n / d) for d > 0.
JSFloor(n, d) == n \div d

Min(a, b) == IF a <= b THEN a ELSE b

Max(a, b) == IF a >= b THEN a ELSE b

SetMin(S) == CHOOSE x \in S : \A y \in S : x <= y

\* The elements of a finite set of integers, ascending.
RECURSIVE Ascending(_)
Ascending(S) == IF S = {} THEN <<>> ELSE <<SetMin(S)>> \o Ascending(S \ {SetMin(S)})

\* A Map / plain object used as a counter table: key -> number.
MapGetOr0(m, k) == IF k \in DOMAIN m THEN m[k] ELSE 0

MapSet(m, k, v) == [x \in (DOMAIN m) \cup {k} |-> IF x = k THEN v ELSE m[x]]

\* Array.from(map.entries()).map(([date, count]) => ({date, count}))
\*   .sort((a, b) => a.date.localeCompare(b.date))
EntriesByDate(m) ==
  LET keys == Ascending(DOMAIN m)
  IN  [i \in 1..Len(keys) |-> [date |-> keys[i], count |-> m[keys[i]]]]

(***************************************************************************)
(* shared/schema: the enums and the insert schema.                         *)
(***************************************************************************)
difficultyEnum == {"EASY", "MEDIUM", "HARD"}

platformEnum == {"LEETCODE", "CODECHEF", "CODEFORCES", "HACKERRANK", "OTHER"}

Users == {1, 2}

\* formatDate(date): date.toISOString().split('T')[0], as a day number.
formatDate(t) == t \div TicksPerDay

\* A date-only string "YYYY-MM-DD" of the day  TodayDay + offset.
DateOnly(offset) == (TodayDay + offset) * TicksPerDay

\* A date-time string of the day  TodayDay + offset , in its last tick.
DateTime(offset) == (TodayDay + offset) * TicksPerDay + (TicksPerDay - 1)

\* A dateSolved string that new Date() cannot parse: the Invalid Date, whose
\* time value is NaN.  No instant drawn is negative.
InvalidDate == -1

(***************************************************************************)
(* MemStorage: problem operations.                                         *)
(***************************************************************************)
getProblemsBug(userId) ==
  LET ids == Ascending(DOMAIN problems)
  IN  [k \in 1..Len(ids) |-> problems[ids[k]]]

\* getProblems(userId): Array.from(this.problems.values()).filter(...)
getProblems(userId) ==
  LET ids == Ascending({i \in DOMAIN problems : problems[i].userId = userId})
  IN  [k \in 1..Len(ids) |-> problems[ids[k]]]

\* createProblem(problem): the store after it
createProblem(problem) ==
  LET id == problemIdCounter
      newProblem == [f \in (DOMAIN problem) \cup {"id"} |->
                       IF f = "id" THEN id ELSE problem[f]]
  IN  [i \in (DOMAIN problems) \cup {id} |->
         IF i = id THEN newProblem ELSE problems[i]]

\* updateProblem(id, problem): { ...existingProblem, ...problem }
updateProblem(id, problem) ==
  LET existingProblem == problems[id]
      updatedProblem == [f \in (DOMAIN existingProblem) \cup (DOMAIN problem) |->
                           IF f \in DOMAIN problem THEN problem[f]
                           ELSE existingProblem[f]]
  IN  [problems EXCEPT ![id] = updatedProblem]

\* deleteProblem(id): this.problems.delete(id)
deleteProblem(id) == [i \in (DOMAIN problems) \ {id} |-> problems[i]]

(***************************************************************************)
(* MemStorage: topic and problem-topic operations.  The operations that    *)
(* assign an id work on the pair [map, counter] of a map and its counter.  *)
(***************************************************************************)
\* The topics the constructor creates.
defaultTopics ==
  <<"Arrays", "Strings", "Linked Lists", "Trees", "Graphs",
    "Dynamic Programming", "Recursion", "Sorting", "Binary Search",
    "Hash Tables", "Heaps", "Greedy", "Backtracking", "Math",
    "Bit Manipulation", "Stack", "Queue", "Sliding Window",
    "Two Pointers", "Union Find", "Trie", "Design">>

\* String.prototype.toLowerCase on the topic names that occur.
LowerCasePairs ==
  {<<"Arrays", "arrays">>, <<"Strings", "strings">>, <<"Linked Lists", "linked lists">>,
   <<"Trees", "trees">>, <<"Graphs", "graphs">>,
   <<"Dynamic Programming", "dynamic programming">>, <<"Recursion", "recursion">>,
   <<"Sorting", "sorting">>, <<"Binary Search", "binary search">>,
   <<"Hash Tables", "hash tables">>, <<"Heaps", "heaps">>, <<"Greedy", "greedy">>,
   <<"Backtracking", "backtracking">>, <<"Math", "math">>,
   <<"Bit Manipulation", "bit manipulation">>, <<"Stack", "stack">>,
   <<"Queue", "queue">>, <<"Sliding Window", "sliding window">>,
   <<"Two Pointers", "two pointers">>, <<"Union Find", "union find">>,
   <<"Trie", "trie">>, <<"Design", "design">>, <<"Zeta", "zeta">>}

toLowerCase(str) ==
  IF \E pr \in LowerCasePairs : pr[1] = str
  THEN (CHOOSE pr \in LowerCasePairs : pr[1] = str)[2]
  ELSE str

\* getTopicByName(name) !== undefined, on the topics map ts
getTopicByName(ts, name) ==
  \E id \in DOMAIN ts : toLowerCase(ts[id].name) = toLowerCase(name)

\* The part of createTopic after its await: existingTopic is what
\* getTopicByName found before the await.
createTopicAfterAwait(st, name, existingTopic) ==
  IF existingTopic THEN st
  ELSE [map     |-> [id \in (DOMAIN st.map) \cup {st.counter} |->
                       IF id = st.counter THEN [id |-> id, name |-> name]
                       ELSE st.map[id]],
        counter |-> st.counter + 1]

\* createTopic(topic) run alone, to its end.
createTopic(st, name) == createTopicAfterAwait(st, name, getTopicByName(st.map, name))

\* getProblemTopics(problemId): the topic names of the problem, in id order.
getProblemTopics(problemId) ==
  LET ids == Ascending({id \in DOMAIN problemTopics :
                          problemTopics[id].problemId = problemId})
  IN  [k \in 1..Len(ids) |-> problemTopics[ids[k]].topicName]

\* getProblemTopics(problemId) on the problem-topic map ptMap.
problemTopicNames(ptMap, problemId) ==
  LET ids == Ascending({id \in DOMAIN ptMap : ptMap[id].problemId = problemId})
  IN  [k \in 1..Len(ids) |-> ptMap[ids[k]].topicName]

\* addProblemTopic(problemTopic)
addProblemTopic(st, problemId, topicName) ==
  LET exists == \E id \in DOMAIN st.map :
                  st.map[id].problemId = problemId /\ st.map[id].topicName = topicName
  IN  IF exists THEN st
      ELSE [map     |-> [id \in (DOMAIN st.map) \cup {st.counter} |->
                           IF id = st.counter
                           THEN [id |-> id, problemId |-> problemId, topicName |-> topicName]
                           ELSE st.map[id]],
            counter |-> st.counter + 1]

\* removeProblemTopic(problemId, topicName): the first matching entry goes.
removeProblemTopic(st, problemId, topicName) ==
  LET found == {id \in DOMAIN st.map :
                  st.map[id].problemId = problemId /\ st.map[id].topicName = topicName}
  IN  IF found = {} THEN st
      ELSE [st EXCEPT !.map = [id \in (DOMAIN st.map) \ {SetMin(found)} |-> st.map[id]]]

deleteProblemTopicsBug(id) == problemTopics

\* deleteProblem(id), on the problem-topic map: the problem's entries go.
deleteProblemTopics(id) ==
  [ptId \in {x \in DOMAIN problemTopics : problemTopics[x].problemId # id} |->
     problemTopics[ptId]]

(***************************************************************************)
(* MemStorage.getUserStats, on  ps = userProblems  and  today = new Date().*)
(***************************************************************************)
difficultyBreakdown(ps) ==
  [easy   |-> Len(SelectSeq(ps, LAMBDA p : p.difficulty = "EASY")),
   medium |-> Len(SelectSeq(ps, LAMBDA p : p.difficulty = "MEDIUM")),
   hard   |-> Len(SelectSeq(ps, LAMBDA p : p.difficulty = "HARD"))]

PlatformStepBug(acc, platform) == MapSet(acc, platform, 1)

\* acc[platform] = (acc[platform] || 0) + 1
PlatformStep(acc, platform) == MapSet(acc, platform, MapGetOr0(acc, platform) + 1)

RECURSIVE PlatformReduce(_, _)
PlatformReduce(acc, ps) ==
  IF ps = <<>> THEN acc
  ELSE PlatformReduce(PlatformStep(acc, Head(ps).platform), Tail(ps))

platformBreakdown(ps) == PlatformReduce(<<>>, ps)

DailyStepBug(m, problemDate, today) ==
  LET thirtyDaysAgo == today - 30 * TicksPerDay
  IN  IF problemDate >= thirtyDaysAgo
      THEN MapSet(m, formatDate(problemDate), MapGetOr0(m, formatDate(problemDate)) + 1)
      ELSE m

\* The forEach of lines 280-286: one problem counted into the day map.
DailyStep(m, problemDate, today) ==
  LET thirtyDaysAgo == today - 30 * TicksPerDay
  IN  IF problemDate >= thirtyDaysAgo /\ problemDate <= today
      THEN MapSet(m, formatDate(problemDate), MapGetOr0(m, formatDate(problemDate)) + 1)
      ELSE m

RECURSIVE DailyReduce(_, _, _)
DailyReduce(m, ps, today) ==
  IF ps = <<>> THEN m
  ELSE DailyReduce(DailyStep(m, Head(ps).dateSolved, today), Tail(ps), today)

dailyActivity(ps, today) ==
  LET init == [d \in {formatDate(today - i * TicksPerDay) : i \in 0..29} |-> 0]
  IN  EntriesByDate(DailyReduce(init, ps, today))

progressData(ps, today) ==
  IF Len(ps) = 0 THEN <<>>
  ELSE
    LET startDate == SetMin({ps[i].dateSolved : i \in 1..Len(ps)})
        totalDays == JSCeil(today - startDate, TicksPerDay)
        interval  == Max(1, JSFloor(totalDays, 7))
        steps     == {i \in 0..totalDays : i % interval = 0}
        currentDate(i) == startDate + i * TicksPerDay
        cumulativeTotal(i) ==
          Len(SelectSeq(ps, LAMBDA p : p.dateSolved <= currentDate(i)))
        loopMap == [d \in {formatDate(currentDate(i)) : i \in steps} |->
                      cumulativeTotal(CHOOSE i \in steps : formatDate(currentDate(i)) = d)]
    IN  EntriesByDate(MapSet(loopMap, formatDate(today), Len(ps)))

RECURSIVE StreakBack(_, _)
StreakBack(days, prevDate) ==
  IF prevDate \in days THEN 1 + StreakBack(days, prevDate - 1) ELSE 0

currentStreakBug(ps, today) ==
  LET days == {formatDate(ps[i].dateSolved) : i \in 1..Len(ps)}
  IN  IF formatDate(today) \in days THEN 1 + StreakBack(days, formatDate(today) - 1)
      ELSE StreakBack(days, formatDate(today) - 1)

currentStreak(ps, today) ==
  LET days == {formatDate(ps[i].dateSolved) : i \in 1..Len(ps)}
      solvedToday == formatDate(today) \in days
  IN  IF Len(ps) > 0 /\ solvedToday
      THEN 1 + StreakBack(days, formatDate(today) - 1)
      ELSE 0

\* weeklyAverage, in tenths: Math.round((problemsLastFourWeeks / 4) * 10) / 10
weeklyAverage(ps, today) ==
  LET fourWeeksAgo == today - 28 * TicksPerDay
      problemsLastFourWeeks ==
        Len(SelectSeq(ps, LAMBDA p : p.dateSolved >= fourWeeksAgo))
  IN  IF Len(ps) > 0 THEN JSRound(problemsLastFourWeeks * 10, 4) ELSE 0

\* The topic names of the problems of ps, problem after problem.
RECURSIVE TopicNames(_)
TopicNames(ps) ==
  IF ps = <<>> THEN <<>> ELSE getProblemTopics(Head(ps).id) \o TopicNames(Tail(ps))

\* The keys of a Map filled in the order of s: each element once, at the
\* place of its first occurrence.
RECURSIVE FirstOccurrences(_)
FirstOccurrences(s) ==
  IF s = <<>> THEN <<>>
  ELSE LET rest == FirstOccurrences(SubSeq(s, 1, Len(s) - 1))
       IN  IF \E i \in 1..Len(rest) : rest[i] = s[Len(s)] THEN rest
           ELSE Append(rest, s[Len(s)])

\* One step of the stable sort by (b.count - a.count).
InsertByCount(sorted, x) ==
  LET k == Cardinality({i \in 1..Len(sorted) : sorted[i].count >= x.count})
  IN  SubSeq(sorted, 1, k) \o <<x>> \o SubSeq(sorted, k + 1, Len(sorted))

RECURSIVE SortByCount(_)
SortByCount(arr) ==
  IF arr = <<>> THEN <<>>
  ELSE InsertByCount(SortByCount(SubSeq(arr, 1, Len(arr) - 1)), arr[Len(arr)])

topicDistribution(ps) ==
  LET names == TopicNames(ps)
      keys  == FirstOccurrences(names)
  IN  SortByCount([i \in 1..Len(keys) |->
         [name |-> keys[i],
          count |-> Cardinality({j \in 1..Len(names) : names[j] = keys[i]})]])

InsertByDateBug(sorted, x) == Append(sorted, x)

\* One step of the stable sort of lines 244-249, newest first.
InsertByDate(sorted, x) ==
  LET k == Cardinality({i \in 1..Len(sorted) : sorted[i].dateSolved >= x.dateSolved})
  IN  SubSeq(sorted, 1, k) \o <<x>> \o SubSeq(sorted, k + 1, Len(sorted))

RECURSIVE SortByDate(_)
SortByDate(arr) ==
  IF arr = <<>> THEN <<>>
  ELSE InsertByDate(SortByDate(SubSeq(arr, 1, Len(arr) - 1)), arr[Len(arr)])

recentProblems(ps) ==
  LET sorted == SortByDate(ps)
  IN  [i \in 1..Min(5, Len(sorted)) |->
         [id         |-> sorted[i].id,
          platform   |-> sorted[i].platform,
          difficulty |-> sorted[i].difficulty,
          topics     |-> getProblemTopics(sorted[i].id),
          dateSolved |-> formatDate(sorted[i].dateSolved)]]

recordsAfterStatsBug(userId) ==
  [id \in DOMAIN problems |->
     IF problems[id].userId = userId /\ problems[id].dateSolved # InvalidDate
     THEN [problems[id] EXCEPT !.dateSolved = formatDate(@)]
     ELSE problems[id]]

\* The stored records after getUserStats(userId).  The array it sorts in
\* place (line 244) is the copy getProblems made with Array.from and filter,
\* and the map of lines 251-262 builds new objects: no stored record is
\* assigned to.
recordsAfterStats(userId) == problems

getUserStatsThrowsBug(ps) ==
  Len(ps) > 0 /\ \A i \in 1..Len(ps) : ps[i].dateSolved = InvalidDate

\* Whether getUserStats rejects.  formatDate of an Invalid Date throws a
\* RangeError (toISOString).  The streak code calls it on the records in turn
\* inside sortedProblems.some(...): the test for today when it finds no
\* record, and otherwise the test for the first day back without a record,
\* visits every record, so an unparseable dateSolved is always reached (if
\* line 260 has not thrown on it before).  Comparisons with an Invalid Date
\* (lines 282, 313, 374) are false and throw nothing.
getUserStatsThrows(ps) ==
  \E i \in 1..Len(ps) : ps[i].dateSolved = InvalidDate

getUserStats(userId, today) ==
  LET userProblems == getProblems(userId)
  IN  [totalSolved         |-> Len(userProblems),
       currentStreak       |-> currentStreak(userProblems, today),
       weeklyAverage       |-> weeklyAverage(userProblems, today),
       difficultyBreakdown |-> difficultyBreakdown(userProblems),
       platformBreakdown   |-> platformBreakdown(userProblems),
       topicDistribution   |-> topicDistribution(userProblems),
       recentProblems      |-> recentProblems(userProblems),
       dailyActivity       |-> dailyActivity(userProblems, today),
       progressData        |-> progressData(userProblems, today)]

(***************************************************************************)
(* The LeetCode API (@leetnotion/leetcode-api), as the routes use it.      *)
(* upstream[username] is a record                                          *)
(*   fails         "none", or the call that throws: "user",                *)
(*                 "recent_user_submissions", "problems"                   *)
(*   matchedUser   whether user(username) answers with a matchedUser       *)
(*   all, easy, medium, hard   submitStats.acSubmissionNum counts          *)
(*   acRate        submitStats.acRate, in tenths of a percent              *)
(*   submissions   the recent submissions' timestamps (ticks), newest first*)
(*   tags          tagProblemCounts: <<[tagName, problemsSolved,           *)
(*                 problemsTotal]>>                                         *)
(*   ranking       profile.ranking                                         *)
(*   contest       <<>> when the answer has no userContestInfo, else       *)
(*                 <<userContestInfo.attendedContestsCount>>               *)
(***************************************************************************)
Usernames == {"a", "b", "c"}

\* leetcodeClient.recent_user_submissions(username, limit)
recent_user_submissions(username, limit) ==
  SubSeq(upstream[username].submissions, 1, Min(limit, Len(upstream[username].submissions)))

\* consistency = Math.min(100, Math.round((uniqueDates.size / divisor) * 100))
consistencyOf(submissions, divisor) ==
  LET uniqueDates == {formatDate(submissions[i]) : i \in 1..Len(submissions)}
  IN  IF Len(submissions) > 0
      THEN Min(100, JSRound(Cardinality(uniqueDates) * 100, divisor))
      ELSE 0

\* topicMap.set(tag.tagName, {...}) for each tag, then Array.from(topicMap.values()):
\* one entry per tagName, at the place of its first occurrence, with the
\* value of its last.
RECURSIVE topicArray(_)
topicArray(tags) ==
  IF tags = <<>> THEN <<>>
  ELSE LET last == tags[Len(tags)]
           rest == topicArray(SubSeq(tags, 1, Len(tags) - 1))
       IN  IF \E i \in 1..Len(rest) : rest[i].tagName = last.tagName
           THEN [i \in 1..Len(rest) |->
                   IF rest[i].tagName = last.tagName THEN last ELSE rest[i]]
           ELSE Append(rest, last)

InsertBySolvedBug(sorted, x) == Append(sorted, x)

\* One step of the stable sort by (b.problemsSolved - a.problemsSolved):
\* x goes after the elements that have at least its problemsSolved.
InsertBySolved(sorted, x) ==
  LET k == Cardinality({i \in 1..Len(sorted) : sorted[i].problemsSolved >= x.problemsSolved})
  IN  SubSeq(sorted, 1, k) \o <<x>> \o SubSeq(sorted, k + 1, Len(sorted))

RECURSIVE sortedTags(_)
sortedTags(arr) ==
  IF arr = <<>> THEN <<>>
  ELSE InsertBySolved(sortedTags(SubSeq(arr, 1, Len(arr) - 1)), arr[Len(arr)])

\* sortedTags.slice(0, 3).map(tag => tag.tagName)
strongTopics(tags) ==
  LET sorted == sortedTags(topicArray(tags))
  IN  [i \in 1..Min(3, Len(sorted)) |-> sorted[i].tagName]

\* One step of the stable sort by solve percentage, lowest first:
\*   (a.problemsSolved / a.problemsTotal) - (b.problemsSolved / b.problemsTotal)
\* compared by cross-multiplication, for positive problemsTotal.
InsertByRatio(sorted, x) ==
  LET k == Cardinality({i \in 1..Len(sorted) :
             sorted[i].problemsSolved * x.problemsTotal
               <= x.problemsSolved * sorted[i].problemsTotal})
  IN  SubSeq(sorted, 1, k) \o <<x>> \o SubSeq(sorted, k + 1, Len(sorted))

RECURSIVE SortByRatio(_)
SortByRatio(arr) ==
  IF arr = <<>> THEN <<>>
  ELSE InsertByRatio(SortByRatio(SubSeq(arr, 1, Len(arr) - 1)), arr[Len(arr)])

weakTopicsBug(tags) ==
  LET sorted == SortByRatio(sortedTags(topicArray(tags)))
  IN  [i \in 1..Min(3, Len(sorted)) |-> sorted[i].tagName]

\* sortedTags.filter(tag => tag.problemsSolved > 0).sort(...).slice(0, 3).map(tag => tag.tagName)
weakTopics(tags) ==
  LET solved == SelectSeq(sortedTags(topicArray(tags)), LAMBDA tag : tag.problemsSolved > 0)
      sorted == SortByRatio(solved)
  IN  [i \in 1..Min(3, Len(sorted)) |-> sorted[i].tagName]

\* The strings of the recommendations, by the rule that pushes them; the
\* weak-area string carries the topic it names.
hardRuleBug(hardCount, totalProblems) == 10 * hardCount <= totalProblems

hardRule(hardCount, totalProblems) ==
  \* hardCount / totalProblems < 0.1 ; 0/0 is NaN and n/0 is Infinity: false
  totalProblems > 0 /\ 10 * hardCount < totalProblems

contestRule(contest) ==
  \* userContestInfo?.attendedContestsCount < 5 ; undefined < 5 is false
  contest # <<>> /\ contest[1] < 5

recommendations(hardCount, totalProblems, consistency, weak, contest) ==
  LET pushed ==
        (IF hardRule(hardCount, totalProblems) THEN <<[rule |-> "hard"]>> ELSE <<>>)
        \o (IF consistency < 70 THEN <<[rule |-> "daily"]>> ELSE <<>>)
        \o (IF Len(weak) > 0 THEN <<[rule |-> "weak", topic |-> weak[1]]>> ELSE <<>>)
        \o (IF contestRule(contest) THEN <<[rule |-> "contest"]>> ELSE <<>>)
  IN  IF Len(pushed) = 0 THEN <<[rule |-> "fallback"]>> ELSE pushed

\* The score components (analyze-profile lines 383-389, compare-profiles 525-531).
problemsScore(totalProblems) == Min(30, JSRound(totalProblems * 30, 100))

difficultyScorePoints(easyCount, mediumCount, hardCount, totalProblems) ==
  Min(40, JSRound((easyCount * 1 + mediumCount * 2 + hardCount * 3) * 40,
                  Max(1, totalProblems)))

consistencyPoints(consistency) == Min(20, JSRound(consistency * 2, 10))

\* Math.min(100, Math.round(acRate))
problemSolvingSpeed(acRate) == Min(100, JSRound(acRate, 10))

\* analyze-profile: Math.min(10, Math.round(problemSolvingSpeed * 0.1))
speedPointsAnalyze(acRate) == Min(10, JSRound(problemSolvingSpeed(acRate), 10))

\* compare-profiles: Math.min(10, Math.round((acRate || 0) * 0.1))
speedPointsCompare(acRate) == Min(10, JSRound(acRate, 100))

\* The four components analyze-profile computes and logs for a profile.
analyzePoints(username) ==
  LET up == upstream[username]
      consistency == consistencyOf(recent_user_submissions(username, 50), 30)
  IN  [problemsScore         |-> problemsScore(up.all),
       difficultyScorePoints |-> difficultyScorePoints(up.easy, up.medium, up.hard, up.all),
       consistencyPoints     |-> consistencyPoints(consistency),
       speedPoints           |-> speedPointsAnalyze(up.acRate)]

\* The four components compare-profiles computes for a profile.
comparePoints(username) ==
  LET up == upstream[username]
      consistency == consistencyOf(recent_user_submissions(username, 20), 20)
  IN  [problemsScore         |-> problemsScore(up.all),
       difficultyScorePoints |-> difficultyScorePoints(up.easy, up.medium, up.hard, up.all),
       consistencyPoints     |-> consistencyPoints(consistency),
       speedPoints           |-> speedPointsCompare(up.acRate)]

totalScore(points) ==
  points.problemsScore + points.difficultyScorePoints
    + points.consistencyPoints + points.speedPoints

\* analysisResult of analyze-profile
analysisResult(username) ==
  LET up == upstream[username]
  IN  [username            |-> username,
       totalScore          |-> totalScore(analyzePoints(username)),
       totalProblems       |-> up.all,
       easyCount           |-> up.easy,
       mediumCount         |-> up.medium,
       hardCount           |-> up.hard,
       strongTopics        |-> strongTopics(up.tags),
       weakTopics          |-> weakTopics(up.tags),
       consistency         |-> consistencyOf(recent_user_submissions(username, 50), 30),
       problemSolvingSpeed |-> problemSolvingSpeed(up.acRate),
       ranking             |-> up.ranking,
       recommendations     |->
         recommendations(up.hard, up.all,
                         consistencyOf(recent_user_submissions(username, 50), 30),
                         weakTopics(up.tags), up.contest)]

profileResultKeepsFailed(username) ==
  LET up == upstream[username]
  IN  [state         |-> "profile",
       username      |-> username,
       totalScore    |-> totalScore(comparePoints(username)),
       totalProblems |-> up.all,
       easyCount     |-> up.easy,
       mediumCount   |-> up.medium,
       hardCount     |-> up.hard,
       strongTopics  |-> strongTopics(up.tags),
       consistency   |-> consistencyOf(recent_user_submissions(username, 20), 20),
       ranking       |-> up.ranking]

profileResultBug(username) ==
  LET up == upstream[username]
  IN  IF up.fails = "user" THEN [state |-> "rejected"]
      ELSE IF ~up.matchedUser THEN [state |-> "null"]
      ELSE IF up.fails # "none" THEN [state |-> "rejected"]
      ELSE [state         |-> "profile",
            username      |-> username,
            totalScore    |-> totalScore(comparePoints(username)),
            totalProblems |-> up.all,
            easyCount     |-> up.easy,
            mediumCount   |-> up.medium,
            hardCount     |-> up.hard,
            strongTopics  |-> strongTopics(up.tags),
            consistency   |-> consistencyOf(recent_user_submissions(username, 20), 20),
            ranking       |-> up.ranking]

\* What one promise of compare-profiles resolves to: the profile, or null
\* (the callback catches what its upstream calls throw, so it never rejects).
profileResult(username) ==
  LET up == upstream[username]
  IN  IF up.fails = "user" THEN [state |-> "null"]
      ELSE IF ~up.matchedUser THEN [state |-> "null"]
      ELSE IF up.fails # "none" THEN [state |-> "null"]
      ELSE [state         |-> "profile",
            username      |-> username,
            totalScore    |-> totalScore(comparePoints(username)),
            totalProblems |-> up.all,
            easyCount     |-> up.easy,
            mediumCount   |-> up.medium,
            hardCount     |-> up.hard,
            strongTopics  |-> strongTopics(up.tags),
            consistency   |-> consistencyOf(recent_user_submissions(username, 20), 20),
            ranking       |-> up.ranking]

Range(s) == {s[i] : i \in 1..Len(s)}

commonTopicsBug(profiles) ==
  SelectSeq(profiles[1].strongTopics,
            LAMBDA topic : \E i \in 2..Len(profiles) : topic \in Range(profiles[i].strongTopics))

\* allStrongTopics[0].filter(topic => allStrongTopics.every(topics => topics.includes(topic)))
commonTopics(profiles) ==
  SelectSeq(profiles[1].strongTopics,
            LAMBDA topic : \A i \in 1..Len(profiles) : topic \in Range(profiles[i].strongTopics))

\* The index of the first of the highest values of a list of integers.
FirstMaxOf(values) ==
  CHOOSE i \in 1..Len(values) :
    /\ \A j \in 1..Len(values) : values[j] <= values[i]
    /\ \A j \in 1..(i - 1) : values[j] < values[i]

\* p.hardCount / p.totalProblems is NaN (0/0), Infinity (n/0) or a ratio.
HardRatioNaN(p) == p.totalProblems = 0 /\ p.hardCount = 0

HardRatioInfinite(p) == p.totalProblems = 0 /\ p.hardCount > 0

\* hardCount/totalProblems of p exceeds that of q by more than 0.1
HardRatioExceeds(p, q) ==
  IF HardRatioInfinite(p) THEN ~HardRatioInfinite(q)
  ELSE IF HardRatioInfinite(q) THEN FALSE
  ELSE 10 * (p.hardCount * q.totalProblems - q.hardCount * p.totalProblems)
         > p.totalProblems * q.totalProblems

\* maxHardRatio - minHardRatio > 0.1 : Math.max and Math.min of a list with
\* a NaN are NaN, and no comparison with NaN is true.
hardSpread(profiles) ==
  /\ ~\E i \in 1..Len(profiles) : HardRatioNaN(profiles[i])
  /\ \E i, j \in 1..Len(profiles) : HardRatioExceeds(profiles[i], profiles[j])

\* hardCount/totalProblems of p is less than that of q (neither is NaN)
HardRatioLess(p, q) ==
  IF HardRatioInfinite(q) THEN ~HardRatioInfinite(p)
  ELSE IF HardRatioInfinite(p) THEN FALSE
  ELSE p.hardCount * q.totalProblems < q.hardCount * p.totalProblems

\* profiles[hardRatios.indexOf(maxHardRatio)], when hardSpread holds
hardFocusProfile(profiles) ==
  profiles[CHOOSE i \in 1..Len(profiles) :
             /\ \A j \in 1..Len(profiles) : ~HardRatioLess(profiles[i], profiles[j])
             /\ \A j \in 1..(i - 1) : HardRatioLess(profiles[j], profiles[i])]

\* The analysis string, as the sentences it is made of.
analysis(profiles, common) ==
  LET \* [...profiles].sort((a, b) => b.totalScore - a.totalScore), stable:
      \* first the first profile with the highest score, last the last
      \* profile with the lowest
      topProfile ==
        profiles[FirstMaxOf([i \in 1..Len(profiles) |-> profiles[i].totalScore])]
      bottomProfile ==
        profiles[CHOOSE i \in 1..Len(profiles) :
                   /\ \A j \in 1..Len(profiles) : profiles[i].totalScore <= profiles[j].totalScore
                   /\ \A j \in (i + 1)..Len(profiles) :
                         profiles[i].totalScore < profiles[j].totalScore]
      \* profiles.find(p => p.consistency === maxConsistency)
      consistentProfile ==
        profiles[FirstMaxOf([i \in 1..Len(profiles) |-> profiles[i].consistency])]
  IN  <<IF topProfile.totalScore - bottomProfile.totalScore > 30
        THEN [sentence |-> "significant difference", username |-> topProfile.username,
              totalProblems |-> topProfile.totalProblems,
              strongTopics |-> topProfile.strongTopics]
        ELSE [sentence |-> "similar performance", commonTopics |-> common]>>
      \o (IF hardSpread(profiles)
          THEN <<[sentence |-> "hard focus",
                  username |-> hardFocusProfile(profiles).username,
                  hardCount |-> hardFocusProfile(profiles).hardCount]>>
          ELSE <<>>)
      \o (IF consistentProfile.consistency > 80
          THEN <<[sentence |-> "consistency", username |-> consistentProfile.username]>>
          ELSE <<>>)

enoughProfilesBug(profiles) == Len(profiles) >= 1

\* the negation of  profiles.length < 2
enoughProfiles(profiles) == Len(profiles) >= 2

(***************************************************************************)
(* Initial state: MemStorage's constructor, no request served yet.         *)
(***************************************************************************)
NoResponse == [op |-> "none", status |-> 0]

CmpIdle == [pc |-> "idle"]

NoLog == [username |-> "none"]

\* The clock: any tick of the day TodayDay.
NowChoices == {TodayDay * TicksPerDay + t : t \in 0..(TicksPerDay - 1)}

InitStore ==
  /\ problems = <<>>
  /\ problemIdCounter = 1
  /\ topics = [id \in 1..Len(defaultTopics) |-> [id |-> id, name |-> defaultTopics[id]]]
  /\ topicIdCounter = Len(defaultTopics) + 1
  /\ problemTopics = <<>>
  /\ problemTopicIdCounter = 1

(***************************************************************************)
(* The problem routes of server/routes.ts.  A request body is a record of  *)
(* the fields the client sent; insertProblemSchema (drizzle-zod of the     *)
(* problems table) takes any string for difficulty, platform, dateSolved.  *)
(***************************************************************************)
InsertFields == {"userId", "difficulty", "platform", "dateSolved"}

\* insertProblemSchema.safeParse(problemData).success
insertProblemSchemaOk(problemData) == InsertFields \subseteq DOMAIN problemData

\* const { topics, ...problemData } = req.body
TopicsOf(body) == IF "topics" \in DOMAIN body THEN body.topics ELSE <<>>

ProblemDataOf(body) == [f \in (DOMAIN body) \ {"topics"} |-> body[f]]

\* The createTopic calls of lines 122-133.  The callbacks of topics.map all
\* start before any of them resumes, and each createTopic looks the name up
\* before its await: every lookup sees the topics of before the request.
RECURSIVE CreateTopicsStale(_, _, _)
CreateTopicsStale(st, names, before) ==
  IF names = <<>> THEN st
  ELSE CreateTopicsStale(createTopicAfterAwait(st, Head(names), getTopicByName(before, Head(names))),
                         Tail(names), before)

\* addProblemTopic for each name, in order.
RECURSIVE AddProblemTopics(_, _, _)
AddProblemTopics(st, problemId, names) ==
  IF names = <<>> THEN st
  ELSE AddProblemTopics(addProblemTopic(st, problemId, Head(names)), problemId, Tail(names))

\* POST /api/problems
PostProblem(userId, body) ==
  LET problemData == [f \in (DOMAIN ProblemDataOf(body)) \cup {"userId"} |->
                        IF f = "userId" THEN userId ELSE body[f]]
      names == TopicsOf(body)
      newTopics == CreateTopicsStale([map |-> topics, counter |-> topicIdCounter],
                                     names, topics)
      newLinks == AddProblemTopics([map |-> problemTopics, counter |-> problemTopicIdCounter],
                                   problemIdCounter, names)
  IN  IF ~insertProblemSchemaOk(problemData)
         \/ problemData.difficulty \notin difficultyEnum
         \/ problemData.platform \notin platformEnum
      THEN /\ res' = [op |-> "postProblem", status |-> 400]
           /\ UNCHANGED <<problems, problemIdCounter, topicVars, now, upstream, cmp, logged>>
      ELSE /\ problemIdCounter <= MaxProblems
           /\ newLinks.counter <= MaxProblemTopics + 1
           /\ problems' = createProblem(problemData)
           /\ problemIdCounter' = problemIdCounter + 1
           /\ topics' = newTopics.map
           /\ topicIdCounter' = newTopics.counter
           /\ problemTopics' = newLinks.map
           /\ problemTopicIdCounter' = newLinks.counter
           /\ res' = [op |-> "postProblem", status |-> 201]
           /\ UNCHANGED <<now, upstream, cmp, logged>>

\* if (problemData.difficulty) { difficultyEnum.parse(problemData.difficulty) }
PutFieldOk(problemData, field, enum) ==
  (field \in DOMAIN problemData /\ problemData[field] # "") => problemData[field] \in enum

RemoveProblemTopicsBug(st, problemId, existingTopics, names) == st

\* Lines 219-223: the existing topics that are not in the new list go.
RECURSIVE RemoveProblemTopics(_, _, _, _)
RemoveProblemTopics(st, problemId, existingTopics, names) ==
  IF existingTopics = <<>> THEN st
  ELSE RemoveProblemTopics(
         IF \E i \in 1..Len(names) : names[i] = Head(existingTopics) THEN st
         ELSE removeProblemTopic(st, problemId, Head(existingTopics)),
         problemId, Tail(existingTopics), names)

\* The names of lines 226-237 that are not among existingTopics.
NewTopicNames(existingTopics, names) ==
  SelectSeq(names, LAMBDA n : ~\E i \in 1..Len(existingTopics) : existingTopics[i] = n)

\* The createTopic calls of lines 226-237, one after the other.
RECURSIVE CreateTopics(_, _)
CreateTopics(st, names) ==
  IF names = <<>> THEN st ELSE CreateTopics(createTopic(st, Head(names)), Tail(names))

\* PUT /api/problems/:id
PutProblem(userId, problemId, body) ==
  IF problemId \notin DOMAIN problems
  THEN /\ res' = [op |-> "putProblem", status |-> 404]
       /\ UNCHANGED <<problems, problemIdCounter, topicVars, now, upstream, cmp, logged>>
  ELSE IF problems[problemId].userId # userId
  THEN /\ res' = [op |-> "putProblem", status |-> 403]
       /\ UNCHANGED <<problems, problemIdCounter, topicVars, now, upstream, cmp, logged>>
  ELSE IF ~PutFieldOk(body, "difficulty", difficultyEnum)
          \/ ~PutFieldOk(body, "platform", platformEnum)
  THEN /\ res' = [op |-> "putProblem", status |-> 400]
       /\ UNCHANGED <<problems, problemIdCounter, topicVars, now, upstream, cmp, logged>>
  ELSE LET existingTopics == getProblemTopics(problemId)
           names == NewTopicNames(existingTopics, TopicsOf(body))
           removed == RemoveProblemTopics(
                        [map |-> problemTopics, counter |-> problemTopicIdCounter],
                        problemId, existingTopics, TopicsOf(body))
           newLinks == AddProblemTopics(removed, problemId, names)
           newTopics == CreateTopics([map |-> topics, counter |-> topicIdCounter], names)
       IN  /\ problems' = updateProblem(problemId, ProblemDataOf(body))
           /\ res' = [op |-> "putProblem", status |-> 200,
                      topics |-> IF "topics" \in DOMAIN body
                                 THEN problemTopicNames(newLinks.map, problemId)
                                 ELSE getProblemTopics(problemId)]
           /\ IF "topics" \in DOMAIN body
              THEN /\ newLinks.counter <= MaxProblemTopics + 1
                   /\ topics' = newTopics.map
                   /\ topicIdCounter' = newTopics.counter
                   /\ problemTopics' = newLinks.map
                   /\ problemTopicIdCounter' = newLinks.counter
              ELSE UNCHANGED topicVars
           /\ UNCHANGED <<problemIdCounter, now, upstream, cmp, logged>>

\* DELETE /api/problems/:id
DeleteProblem(userId, problemId) ==
  IF problemId \notin DOMAIN problems
  THEN /\ res' = [op |-> "deleteProblem", status |-> 404]
       /\ UNCHANGED <<problems, problemIdCounter, topicVars, now, upstream, cmp, logged>>
  ELSE IF problems[problemId].userId # userId
  THEN /\ res' = [op |-> "deleteProblem", status |-> 403]
       /\ UNCHANGED <<problems, problemIdCounter, topicVars, now, upstream, cmp, logged>>
  ELSE /\ problems' = deleteProblem(problemId)
       /\ problemTopics' = deleteProblemTopics(problemId)
       /\ res' = [op |-> "deleteProblem", status |-> 204]
       /\ UNCHANGED <<problemIdCounter, topics, topicIdCounter, problemTopicIdCounter,
                      now, upstream, cmp, logged>>

\* GET /api/stats
GetStats(userId) ==
  /\ IF getUserStatsThrows(getProblems(userId))
     THEN res' = [op |-> "stats", status |-> 500, userId |-> userId]
     ELSE res' = [op |-> "stats", status |-> 200, userId |-> userId,
                  body |-> getUserStats(userId, now)]
  /\ problems' = recordsAfterStats(userId)
  /\ UNCHANGED <<problemIdCounter, topicVars, now, upstream, cmp, logged>>

(***************************************************************************)
(* The profile routes of server/routes.ts.                                 *)
(***************************************************************************)
\* the inner catch: res.status(500).json({ message: "Failed to fetch data from LeetCode..." })
analyzeUpstreamErrorStatus == 500

analyzeNotFoundStatusBug == analyzeUpstreamErrorStatus

\* res.status(404).json({ message: "LeetCode user not found" })
analyzeNotFoundStatus == 404

\* POST /api/analyze-profile
AnalyzeProfile(username) ==
  /\ UNCHANGED <<problems, problemIdCounter, topicVars, now, upstream, cmp>>
  /\ IF username = ""
     THEN /\ res' = [op |-> "analyze", status |-> 400, req |-> username]
          /\ logged' = logged
     ELSE IF upstream[username].fails = "user"
     THEN /\ res' = [op |-> "analyze", status |-> analyzeUpstreamErrorStatus, req |-> username]
          /\ logged' = logged
     ELSE IF ~upstream[username].matchedUser
     THEN /\ res' = [op |-> "analyze", status |-> analyzeNotFoundStatus, req |-> username]
          /\ logged' = logged
     ELSE IF upstream[username].fails # "none"
     THEN /\ res' = [op |-> "analyze", status |-> analyzeUpstreamErrorStatus, req |-> username]
          /\ logged' = logged
     ELSE /\ logged' = [username |-> username, points |-> analyzePoints(username),
                        totalScore |-> totalScore(analyzePoints(username))]
          /\ res' = [op |-> "analyze", status |-> 200, req |-> username,
                     body |-> analysisResult(username)]

\* POST /api/compare-profiles, up to the creation of profilePromises
CompareStart(usernames) ==
  /\ cmp.pc = "idle"
  /\ UNCHANGED <<problems, problemIdCounter, topicVars, now, upstream, logged>>
  /\ IF Len(usernames) < 2
     THEN /\ res' = [op |-> "compare", status |-> 400, req |-> usernames]
          /\ cmp' = cmp
     ELSE /\ res' = [op |-> "compare", status |-> 0, req |-> usernames]
          /\ cmp' = [pc |-> "fetching", usernames |-> usernames,
                     results |-> [i \in 1..Len(usernames) |-> [state |-> "pending"]]]

\* One of the profilePromises settles.
CompareSettle(i) ==
  /\ cmp.pc = "fetching"
  /\ i \in 1..Len(cmp.usernames)
  /\ cmp.results[i].state = "pending"
  /\ cmp' = [cmp EXCEPT !.results[i] = profileResult(cmp.usernames[i])]
  /\ UNCHANGED <<problems, problemIdCounter, topicVars, now, upstream, logged, res>>

\* After await Promise.all(profilePromises): the filter, the check and the
\* response.  Promise.all fulfils when every promise has, and rejects as soon
\* as one rejects: the catch of lines 609-615 then answers 500.
CompareJoin ==
  /\ cmp.pc = "fetching"
  /\ \/ \A i \in 1..Len(cmp.usernames) : cmp.results[i].state # "pending"
     \/ \E i \in 1..Len(cmp.usernames) : cmp.results[i].state = "rejected"
  /\ LET profiles == SelectSeq(cmp.results, LAMBDA r : r.state # "null")
     IN  IF \E i \in 1..Len(cmp.usernames) : cmp.results[i].state = "rejected"
         THEN res' = [op |-> "compare", status |-> 500, req |-> cmp.usernames]
         ELSE IF ~enoughProfiles(profiles)
         THEN res' = [op |-> "compare", status |-> 400, req |-> cmp.usernames]
         ELSE res' = [op |-> "compare", status |-> 200, req |-> cmp.usernames,
                      body |-> [profiles |-> profiles,
                                commonTopics |-> commonTopics(profiles),
                                analysis |-> analysis(profiles, commonTopics(profiles))]]
  /\ cmp' = CmpIdle
  /\ UNCHANGED <<problems, problemIdCounter, topicVars, now, upstream, logged>>

\* compare-profiles requests whose usernames list is drawn from L
CompareNext(L) ==
  \/ \E usernames \in L : CompareStart(usernames)
  \/ \E i \in 1..MaxUsernames : CompareSettle(i)
  \/ CompareJoin

\* The bodies of the PUT requests drawn: no field, or one.
PutBodies(U, D, P, T) ==
  {[difficulty |-> d] : d \in D} \cup {[platform |-> p] : p \in P}
    \cup {[dateSolved |-> t] : t \in T} \cup {[userId |-> u] : u \in U} \cup {<<>>}

\* The requests of the users U on the store, with difficulty, platform and
\* dateSolved drawn from D, P and T.
StoreNext(U, D, P, T) ==
  \/ \E u \in U, d \in D, p \in P, t \in T :
       PostProblem(u, [difficulty |-> d, platform |-> p, dateSolved |-> t])
  \/ \E u \in U, id \in 1..MaxProblems, b \in PutBodies(U, D, P, T) :
       PutProblem(u, id, b)
  \/ \E u \in U, id \in 1..MaxProblems : DeleteProblem(u, id)
  \/ \E u \in U : GetStats(u)

\* Difficulty and platform strings a client may send.
DifficultyInputs == difficultyEnum \cup {""}

PlatformInputs == {"LEETCODE", "", "TOPCODER"}

\* dateSolved strings a client may send, as the instants they parse to.
DateInputs ==
  {DateOnly(o) : o \in {-30, -29, -28, -27, -2, -1, 0, 1}}
    \cup {DateTime(o) : o \in {-30, 0}} \cup {InvalidDate}

InitIdle ==
  /\ upstream = <<>>
  /\ cmp = CmpIdle
  /\ logged = NoLog
  /\ res = NoResponse

\* The store under requests that vary difficulty and platform.
InitBreakdown == InitStore /\ InitIdle /\ now = SetMin(NowChoices)

NextBreakdown == StoreNext(Users, DifficultyInputs, PlatformInputs, {DateOnly(0)})

SpecBreakdown == InitBreakdown /\ [][NextBreakdown]_vars

\* The store under requests that vary dateSolved.
InitDates == InitStore /\ InitIdle /\ now \in NowChoices

NextDates == StoreNext({1}, {"EASY"}, {"LEETCODE"}, DateInputs)

SpecDates == InitDates /\ [][NextDates]_vars

\* The topics arrays a client may send.
TopicInputs == {<<>>, <<"arrays", "Zeta">>, <<"Zeta", "Zeta">>}

\* The store under requests that carry topics: user 1 keeps records, every
\* user asks for stats.
InitTopics == InitStore /\ InitIdle /\ now = SetMin(NowChoices)

NextTopics ==
  \/ \E u \in {1}, t \in {DateOnly(-1), DateOnly(0)}, ts \in TopicInputs :
       PostProblem(u, [difficulty |-> "EASY", platform |-> "LEETCODE",
                       dateSolved |-> t, topics |-> ts])
  \/ \E u \in {1}, id \in 1..MaxProblems, ts \in TopicInputs :
       PutProblem(u, id, [topics |-> ts])
  \/ \E u \in {1}, id \in 1..MaxProblems : PutProblem(u, id, [dateSolved |-> DateOnly(0)])
  \/ \E u \in {1}, id \in 1..MaxProblems : DeleteProblem(u, id)
  \/ \E u \in Users : GetStats(u)

SpecTopics == InitTopics /\ [][NextTopics]_vars

\* A store after MaxRecent - 2 to MaxRecent problems were posted by user 1,
\* the first with the topic Arrays, the second with Arrays and Graphs, each
\* solved yesterday at midnight, yesterday later, or today.
InitRecent ==
  /\ InitIdle
  /\ now = SetMin(NowChoices)
  /\ topics = [id \in 1..Len(defaultTopics) |-> [id |-> id, name |-> defaultTopics[id]]]
  /\ topicIdCounter = Len(defaultTopics) + 1
  /\ problemTopics = <<[id |-> 1, problemId |-> 1, topicName |-> "Arrays"],
                       [id |-> 2, problemId |-> 2, topicName |-> "Arrays"],
                       [id |-> 3, problemId |-> 2, topicName |-> "Graphs"]>>
  /\ problemTopicIdCounter = 4
  /\ \E n \in (MaxRecent - 2)..MaxRecent :
       /\ problemIdCounter = n + 1
       /\ \E dates \in [1..n -> {DateOnly(-1), DateTime(-1), DateOnly(0)}] :
            problems = [id \in 1..n |->
                          [id |-> id, userId |-> 1, difficulty |-> "EASY",
                           platform |-> "LEETCODE", dateSolved |-> dates[id]]]

NextRecent == \E u \in Users : GetStats(u)

SpecRecent == InitRecent /\ [][NextRecent]_vars

(***************************************************************************)
(* Upstream data drawn for the profile routes.                             *)
(***************************************************************************)
\* n recent submissions on n consecutive days, newest first.
SubmissionsOnDays(n) == [i \in 1..n |-> DateTime(1 - i)]

SubmissionInputs ==
  {<<>>, <<DateTime(0), DateOnly(0)>>, SubmissionsOnDays(16), SubmissionsOnDays(24),
   SubmissionsOnDays(50)}

Tag(name, solved, total) == [tagName |-> name, problemsSolved |-> solved, problemsTotal |-> total]

TagsOne == <<Tag("Array", 50, 100), Tag("DP", 30, 100), Tag("Tree", 20, 50), Tag("Graph", 10, 50)>>

TagsTwo == <<Tag("Array", 5, 100), Tag("DP", 40, 100), Tag("Tree", 40, 50), Tag("Graph", 40, 50)>>

TagsThree == <<Tag("Graph", 9, 50), Tag("Array", 9, 100)>>

Profile(all, easy, medium, hard, acRate, submissions, tags) ==
  [fails |-> "none", matchedUser |-> TRUE, all |-> all, easy |-> easy,
   medium |-> medium, hard |-> hard, acRate |-> acRate,
   submissions |-> submissions, tags |-> tags, ranking |-> 1000, contest |-> <<>>]

\* user(username) answers { matchedUser: null }
NotFoundProfile == [Profile(0, 0, 0, 0, 0, <<>>, <<>>) EXCEPT !.matchedUser = FALSE]

\* the call named throws
FailingProfile(call) == [Profile(0, 0, 0, 0, 0, <<>>, <<>>) EXCEPT !.fails = call]

TotalInputs == {0, 5, 100, 250}

CountInputs == {<<0, 0, 0>>, <<5, 0, 0>>, <<40, 40, 20>>, <<0, 0, 300>>}

\* acceptance rates, in tenths of a percent: -50%, 0%, 4.5%, 64.5%, 70%, 150%
AcRateInputs == {-500, 0, 45, 645, 700, 1500}

ScoreProfiles ==
  {Profile(t, c[1], c[2], c[3], r, s, TagsOne) :
     t \in TotalInputs, c \in CountInputs, r \in AcRateInputs, s \in SubmissionInputs}

\* "a" has a profile, "b" does not exist, a call for "c" throws.
InitScore ==
  /\ InitStore
  /\ now = SetMin(NowChoices)
  /\ cmp = CmpIdle
  /\ logged = NoLog
  /\ res = NoResponse
  /\ \E p \in ScoreProfiles, call \in {"user", "recent_user_submissions", "problems"} :
       upstream = [u \in Usernames |->
                     IF u = "a" THEN p
                     ELSE IF u = "b" THEN NotFoundProfile
                     ELSE FailingProfile(call)]

NextScore ==
  \/ \E username \in Usernames \cup {""} : AnalyzeProfile(username)
  \/ CompareNext({<<"a">>, <<"a", "a">>, <<"a", "b">>})

SpecScore == InitScore /\ [][NextScore]_vars

\* Tag counts none of which is solved.
TagsUnsolved == <<Tag("Array", 0, 100), Tag("DP", 0, 100)>>

\* Tag counts one of which is not solved.
TagsMixed == <<Tag("Array", 0, 100), Tag("DP", 3, 100), Tag("Tree", 2, 50), Tag("Graph", 10, 50)>>

\* The orders the upstream may list the tag counts in.
TagOrders(tags) ==
  {t \in [1..Len(tags) -> {tags[i] : i \in 1..Len(tags)}] :
     {t[i] : i \in 1..Len(tags)} = {tags[i] : i \in 1..Len(tags)}}

\* attendedContestsCount: no contest information, 2 contests, 5 contests
ContestInputs == {<<>>, <<2>>, <<5>>}

TagProfiles ==
  {[Profile(c[1], c[2], c[3], c[4], 700, s, tags) EXCEPT !.contest = k] :
     c \in {<<0, 0, 0, 0>>, <<30, 20, 10, 0>>, <<100, 40, 40, 20>>, <<100, 50, 40, 10>>},
     s \in {<<>>, SubmissionsOnDays(24)},
     tags \in {<<>>, TagsOne, TagsTwo, TagsThree, TagsUnsolved, TagsMixed},
     k \in ContestInputs}

\* "a" and "b" have the same profile, the tag counts of "b" in any order;
\* "c" does not exist.
InitTags ==
  /\ InitStore
  /\ now = SetMin(NowChoices)
  /\ cmp = CmpIdle
  /\ logged = NoLog
  /\ res = NoResponse
  /\ \E p \in TagProfiles : \E t \in TagOrders(p.tags) :
       upstream = [u \in Usernames |->
                     IF u = "a" THEN p
                     ELSE IF u = "b" THEN [p EXCEPT !.tags = t]
                     ELSE NotFoundProfile]

NextTags == \E username \in Usernames : AnalyzeProfile(username)

SpecTags == InitTags /\ [][NextTags]_vars

CompareOutcomes ==
  {Profile(100, 40, 40, 20, 700, SubmissionsOnDays(16), TagsOne),
   Profile(30, 20, 10, 0, 450, SubmissionsOnDays(24), TagsTwo),
   Profile(0, 0, 0, 0, 0, <<>>, TagsThree),
   NotFoundProfile,
   FailingProfile("recent_user_submissions")}

\* every usernames list of at most MaxUsernames names
UsernameLists == UNION {[1..n -> Usernames] : n \in 0..MaxUsernames}

\* "a" and "b" have profiles; "c" does not exist, or a call for it throws.
InitDrop ==
  /\ InitStore
  /\ now = SetMin(NowChoices)
  /\ cmp = CmpIdle
  /\ logged = NoLog
  /\ res = NoResponse
  /\ \E failed \in {NotFoundProfile} \cup
                    {FailingProfile(call) :
                       call \in {"user", "recent_user_submissions", "problems"}} :
       upstream = [u \in Usernames |->
                     IF u = "a"
                     THEN Profile(100, 40, 40, 20, 700, SubmissionsOnDays(16), TagsOne)
                     ELSE IF u = "b"
                     THEN Profile(30, 20, 10, 0, 450, SubmissionsOnDays(24), TagsTwo)
                     ELSE failed]

\* Single profiles analysed and lists of 2 to MaxUsernames names compared.
NextDrop ==
  \/ \E username \in Usernames : AnalyzeProfile(username)
  \/ CompareNext(UNION {[1..n -> Usernames] : n \in 2..MaxUsernames})

SpecDrop == InitDrop /\ [][NextDrop]_vars

InitCompare ==
  /\ InitStore
  /\ now = SetMin(NowChoices)
  /\ cmp = CmpIdle
  /\ logged = NoLog
  /\ res = NoResponse
  /\ upstream \in [Usernames -> CompareOutcomes]

NextCompare == CompareNext(UsernameLists)

SpecCompare == InitCompare /\ [][NextCompare]_vars

(***************************************************************************)
(* Properties.  res is the last response; every request on the store sets  *)
(* it, so while res is a stats response the store is the one it was        *)
(* computed from, and the clock does not move within a behaviour.          *)
(***************************************************************************)
StatsSent == res.op = "stats" /\ res.status = 200

\* The days on which the user of the stats response has a record.
SolvedDays ==
  {formatDate(problems[i].dateSolved) :
     i \in {j \in DOMAIN problems : problems[j].userId = res.userId}}

RECURSIVE SumOf(_, _)
SumOf(m, keys) ==
  IF keys = {} THEN 0
  ELSE LET k == CHOOSE x \in keys : TRUE IN m[k] + SumOf(m, keys \ {k})

InCap(x, cap) == x \in 0..cap

PointsInCaps(points) ==
  /\ InCap(points.problemsScore, 30)
  /\ InCap(points.difficultyScorePoints, 40)
  /\ InCap(points.consistencyPoints, 20)
  /\ InCap(points.speedPoints, 10)

\* C1: every score analyze-profile and compare-profiles compute is in 0..100,
\* each component is within its cap (30, 40, 20, 10), and with all counts 0
\* the volume and difficulty points are 0.
C1_ScoreInRange ==
  /\ logged.username # "none" =>
       /\ PointsInCaps(logged.points)
       /\ InCap(logged.totalScore, 100)
       /\ LET up == upstream[logged.username]
          IN  (up.all = 0 /\ up.easy = 0 /\ up.medium = 0 /\ up.hard = 0) =>
                (logged.points.problemsScore = 0 /\ logged.points.difficultyScorePoints = 0)
  /\ (res.op = "analyze" /\ res.status = 200) => InCap(res.body.totalScore, 100)
  /\ (res.op = "compare" /\ res.status = 200) =>
       \A i \in 1..Len(res.body.profiles) :
         /\ InCap(res.body.profiles[i].totalScore, 100)
         /\ PointsInCaps(comparePoints(res.body.profiles[i].username))

\* C2: in every stats response the three difficulty counts sum to totalSolved.
C2_DifficultySum ==
  StatsSent =>
    res.body.difficultyBreakdown.easy + res.body.difficultyBreakdown.medium
      + res.body.difficultyBreakdown.hard = res.body.totalSolved

\* C3: dailyActivity has exactly 30 entries, the 30 consecutive days ending
\* today in ascending order.
C3_ThirtyDays ==
  StatsSent =>
    /\ Len(res.body.dailyActivity) = 30
    /\ \A i \in 1..Len(res.body.dailyActivity) :
         res.body.dailyActivity[i].date = formatDate(now) - 30 + i

\* C4: for a user with records, progressData is ascending by date and
\* non-decreasing in count, and its last entry is (today, totalSolved).
C4_Progress ==
  (StatsSent /\ res.body.totalSolved > 0) =>
    LET pd == res.body.progressData
    IN  /\ Len(pd) >= 1
        /\ \A i, j \in 1..Len(pd) :
             i < j => (pd[i].date < pd[j].date /\ pd[i].count <= pd[j].count)
        /\ pd[Len(pd)].date = formatDate(now)
        /\ pd[Len(pd)].count = res.body.totalSolved

\* C5: currentStreak is the number of consecutive days, back from and
\* including today, that each have a record of the user: every one of the
\* currentStreak days ending today has a record, the day before them has
\* none (so it is 0 when today has none).
C5_Streak ==
  StatsSent =>
    LET k == res.body.currentStreak
    IN  /\ k >= 0
        /\ \A j \in 0..(k - 1) : (formatDate(now) - j) \in SolvedDays
        /\ (formatDate(now) - k) \notin SolvedDays

C5_StreakWitness ==
  /\ StatsSent
  /\ res.body.currentStreak = 2

\* Whether the upstream calls for the username all answer, with a profile.
Resolves(username) ==
  upstream[username].fails = "none" /\ upstream[username].matchedUser

CompareAnswered == res.op = "compare" /\ res.status # 0

\* C6: a comparison of fewer than 2 usernames, or of usernames fewer than 2
\* of which resolve, is answered 400 with no comparison result.
C6_Insufficient ==
  (/\ CompareAnswered
   /\ \/ Len(res.req) < 2
      \/ Cardinality({i \in 1..Len(res.req) : Resolves(res.req[i])}) < 2) =>
    (res.status = 400 /\ "body" \notin DOMAIN res)

C6_InsufficientWitness ==
  /\ CompareAnswered
  /\ res.status = 400
  /\ Len(res.req) = 2
  /\ Cardinality({i \in 1..Len(res.req) : Resolves(res.req[i])}) = 1

\* C7: in a successful comparison commonTopics is, without repetition, the
\* intersection of the strongTopics of the profiles returned, so a subset of
\* each of them.
C7_CommonTopics ==
  (res.op = "compare" /\ res.status = 200) =>
    LET profiles == res.body.profiles
        common == res.body.commonTopics
        all == UNION {Range(profiles[i].strongTopics) : i \in 1..Len(profiles)}
    IN  /\ Range(common) =
             {t \in all : \A i \in 1..Len(profiles) : t \in Range(profiles[i].strongTopics)}
        /\ \A i \in 1..Len(profiles) : Range(common) \subseteq Range(profiles[i].strongTopics)
        /\ Cardinality(Range(common)) = Len(common)

C7_CommonTopicsWitness ==
  /\ res.op = "compare"
  /\ res.status = 200
  /\ \E i \in 1..Len(res.req) : ~Resolves(res.req[i])
  /\ res.body.commonTopics # <<>>
  /\ res.body.commonTopics # res.body.profiles[1].strongTopics

\* user(username) answers, without a matchedUser.
UpstreamNotFound(username) ==
  upstream[username].fails # "user" /\ ~upstream[username].matchedUser

\* An upstream call analyze-profile makes for the username throws.
UpstreamThrows(username) ==
  \/ upstream[username].fails = "user"
  \/ upstream[username].matchedUser /\ upstream[username].fails # "none"

AnalyzeAnswered == res.op = "analyze" /\ res.req # ""

\* C8 as stated: not found is answered 404 and an upstream failure 502.
C8_Statuses502 ==
  AnalyzeAnswered =>
    /\ UpstreamNotFound(res.req) => res.status = 404
    /\ UpstreamThrows(res.req) => res.status = 502

\* C8, amended: not found is answered 404 and an upstream failure 500, so
\* the two kinds of failure never get the same status.
C8_Statuses500 ==
  AnalyzeAnswered =>
    /\ UpstreamNotFound(res.req) => res.status = 404
    /\ UpstreamThrows(res.req) => res.status = 500

C8_StatusesWitness ==
  /\ AnalyzeAnswered
  /\ res.status = 500
  /\ upstream[res.req].matchedUser
  /\ upstream[res.req].fails = "problems"

\* C9: the counts of platformBreakdown sum to totalSolved, its keys are the
\* platforms of the user's records, and each count is the number of the
\* user's records with that platform.
C9_PlatformSum ==
  StatsSent =>
    LET pb == res.body.platformBreakdown
        mine == {i \in DOMAIN problems : problems[i].userId = res.userId}
    IN  /\ SumOf(pb, DOMAIN pb) = res.body.totalSolved
        /\ DOMAIN pb = {problems[i].platform : i \in mine}
        /\ \A p \in DOMAIN pb :
             pb[p] = Cardinality({i \in mine : problems[i].platform = p})

C9_PlatformSumWitness ==
  /\ StatsSent
  /\ \E p \in DOMAIN res.body.platformBreakdown : res.body.platformBreakdown[p] >= 2

\* C10: the totalScore of analyze-profile is the sum of
\* min(30, round(total/100*30)), min(40, round(weighted/max(1,total)*40)),
\* min(20, round(consistency*0.2)) and min(10, round(acceptanceRate*0.1));
\* for 100 solved (40/40/20), acceptance rate 70 and consistency 80 it is 93.
C10_ScoreFormula ==
  (res.op = "analyze" /\ res.status = 200) =>
    LET up == upstream[res.req]
        volume == Min(30, JSRound(up.all * 30, 100))
        difficulty == Min(40, JSRound((up.easy + 2 * up.medium + 3 * up.hard) * 40,
                                      Max(1, up.all)))
        consistency == Min(20, JSRound(res.body.consistency * 2, 10))
        speed == Min(10, JSRound(up.acRate, 100))
    IN  /\ res.body.totalScore = volume + difficulty + consistency + speed
        /\ (/\ up.all = 100 /\ up.easy = 40 /\ up.medium = 40 /\ up.hard = 20
            /\ up.acRate = 700 /\ res.body.consistency = 80) =>
             res.body.totalScore = 93

\* C11: weeklyAverage (in tenths) is the number of the user's records dated
\* on one of the 28 days today-27 .. today, divided by 4 and rounded to one
\* decimal place; earlier and later records do not contribute.
C11_WeeklyAverage ==
  StatsSent =>
    LET ps == getProblems(res.userId)
        inRange == SelectSeq(ps, LAMBDA p :
                     /\ formatDate(p.dateSolved) >= formatDate(now) - 27
                     /\ formatDate(p.dateSolved) <= formatDate(now))
    IN  res.body.weeklyAverage = JSRound(Len(inRange) * 10, 4)

\* The user of the stats response has a record whose dateSolved is unparseable.
HasUnparseable ==
  \E i \in DOMAIN problems :
    problems[i].userId = res.userId /\ problems[i].dateSolved = InvalidDate

C13_FutureRecords ==
  StatsSent =>
    LET ps == getProblems(res.userId)
        notFuture == SelectSeq(ps, LAMBDA p : formatDate(p.dateSolved) <= formatDate(now))
    IN  /\ res.body.totalSolved = Len(ps)
        /\ res.body.difficultyBreakdown.easy
             = Len(SelectSeq(ps, LAMBDA p : p.difficulty = "EASY"))
        /\ SumOf(res.body.platformBreakdown, DOMAIN res.body.platformBreakdown) = Len(ps)
        /\ res.body.dailyActivity = dailyActivity(notFuture, now)
        /\ \A i \in 1..Len(res.body.dailyActivity) :
             res.body.dailyActivity[i].date <= formatDate(now)
        /\ res.body.currentStreak = currentStreak(notFuture, now)

C13_FutureRecordsWitness ==
  /\ StatsSent
  /\ res.body.currentStreak >= 1
  /\ \E i \in DOMAIN problems :
       /\ problems[i].userId = res.userId
       /\ formatDate(problems[i].dateSolved) > formatDate(now)

\* C14: the Stats of a user with no record: totalSolved, currentStreak and
\* weeklyAverage are 0, the difficulty counts are 0, platformBreakdown,
\* topicDistribution, recentProblems and progressData are empty, and
\* dailyActivity has 30 entries, each with count 0.
C14_ZeroRecords ==
  (StatsSent /\ ~\E i \in DOMAIN problems : problems[i].userId = res.userId) =>
    /\ res.body.totalSolved = 0
    /\ res.body.currentStreak = 0
    /\ res.body.weeklyAverage = 0
    /\ res.body.difficultyBreakdown = [easy |-> 0, medium |-> 0, hard |-> 0]
    /\ DOMAIN res.body.platformBreakdown = {}
    /\ res.body.topicDistribution = <<>>
    /\ res.body.recentProblems = <<>>
    /\ res.body.progressData = <<>>
    /\ Len(res.body.dailyActivity) = 30
    /\ \A i \in 1..Len(res.body.dailyActivity) : res.body.dailyActivity[i].count = 0

C14_ZeroRecordsWitness ==
  /\ StatsSent
  /\ res.body.totalSolved = 0
  /\ \E i \in DOMAIN problems : problems[i].userId # res.userId
  /\ DOMAIN problemTopics # {}

ScoreFields(score) == [f \in (DOMAIN score) \ {"username"} |-> score[f]]

\* Whether no two tag counts tie in problemsSolved or in solve percentage.
NoTies(tags) ==
  \A i, j \in 1..Len(tags) :
    i # j => /\ tags[i].problemsSolved # tags[j].problemsSolved
             /\ tags[i].problemsSolved * tags[j].problemsTotal
                  # tags[j].problemsSolved * tags[i].problemsTotal

C20_Recommendations ==
  (res.op = "analyze" /\ res.status = 200) =>
    LET up == upstream[res.req]
        recs == res.body.recommendations
        Has(rule) == \E i \in 1..Len(recs) : recs[i].rule = rule
        Rank(rule) == CHOOSE n \in 1..5 :
                        <<"hard", "daily", "weak", "contest", "fallback">>[n] = rule
    IN  /\ Len(recs) >= 1
        /\ Has("hard") <=> (10 * up.hard < up.all)
        /\ Has("daily") <=> (res.body.consistency < 70)
        /\ Has("weak") <=> (Len(res.body.weakTopics) > 0)
        /\ \A i \in 1..Len(recs) :
             recs[i].rule = "weak" => recs[i].topic = res.body.weakTopics[1]
        /\ Has("contest") <=> (up.contest # <<>> /\ up.contest[1] < 5)
        /\ \A i, j \in 1..Len(recs) : i < j => Rank(recs[i].rule) < Rank(recs[j].rule)
        /\ Has("fallback") <=>
             ~(Has("hard") \/ Has("daily") \/ Has("weak") \/ Has("contest"))
        /\ Has("fallback") => Len(recs) = 1

C20_RecommendationsWitness ==
  /\ res.op = "analyze"
  /\ res.status = 200
  /\ upstream[res.req].all = 0
  /\ upstream[res.req].contest = <<>>
  /\ res.body.recommendations = <<[rule |-> "fallback"]>>

\* C17: while fetches of a comparison are under way no response to it has
\* been sent; the response is sent when no fetch is pending any more, and
\* then, if at least 2 of the usernames resolve, it is the comparison of
\* every username that resolves, whatever the other fetches did and in
\* whatever order the fetches settled.
C17_JoinAfterAll ==
  [][/\ cmp'.pc = "fetching" => (res'.op = "compare" /\ res'.status = 0)
     /\ (cmp.pc = "fetching" /\ res' # res) =>
          /\ \A i \in 1..Len(cmp.usernames) : cmp.results[i].state # "pending"
          /\ res'.op = "compare"
          /\ res'.status # 0
          /\ cmp'.pc = "idle"
          /\ LET ok == SelectSeq(cmp.usernames, Resolves)
             IN  Len(ok) >= 2 =>
                   /\ res'.status = 200
                   /\ [i \in 1..Len(res'.body.profiles) |-> res'.body.profiles[i].username]
                        = ok]_vars

C17_JoinAfterAllWitness ==
  /\ cmp.pc = "fetching"
  /\ Len(cmp.usernames) = 3
  /\ cmp.results[1].state = "pending"
  /\ cmp.results[2].state = "null"
  /\ cmp.results[3].state = "profile"
  /\ Resolves(cmp.usernames[1])
  /\ upstream[cmp.usernames[2]].fails # "none"

\* The usernames of the profiles of a comparison result, in order.
ProfileNames(body) == [i \in 1..Len(body.profiles) |-> body.profiles[i].username]

\* C18: a comparison at least 2 of whose usernames resolve succeeds, and
\* its profiles are those of the usernames that resolve, in the order
\* supplied, the others dropped; analyze-profile for a username that does
\* not resolve fails.
C18_DropFailed ==
  /\ (CompareAnswered /\ Len(SelectSeq(res.req, Resolves)) >= 2) =>
       /\ res.status = 200
       /\ ProfileNames(res.body) = SelectSeq(res.req, Resolves)
  /\ (res.op = "analyze" /\ ~Resolves(res.req)) =>
       /\ res.status \in {analyzeNotFoundStatus, analyzeUpstreamErrorStatus}
       /\ "body" \notin DOMAIN res

C18_DropFailedWitness ==
  /\ CompareAnswered
  /\ res.status = 200
  /\ res.req = <<"b", "c", "a">>
  /\ upstream["c"].fails = "problems"
  /\ ProfileNames(res.body) = <<"b", "a">>

\* C19: the analysis starts with the significant-difference sentence
\* exactly when the highest totalScore exceeds the lowest by more than 30,
\* and with the similar-performance sentence otherwise; the hard-focus
\* sentence is there exactly when the hardCount/totalProblems ratios of the
\* profiles spread by more than 0.1 (for profiles that all have problems),
\* and in any case when two profiles that have problems differ by more than
\* 0.1, whatever the ratio of a profile with totalProblems = 0 is taken to
\* be; the consistency sentence is there exactly when some profile's
\* consistency exceeds 80.
C19_Narrative ==
  (res.op = "compare" /\ res.status = 200) =>
    LET ps == res.body.profiles
        an == res.body.analysis
        Has(sentence) == \E i \in 1..Len(an) : an[i].sentence = sentence
        Apart(i, j) ==
          /\ ps[i].totalProblems > 0
          /\ ps[j].totalProblems > 0
          /\ 10 * (ps[i].hardCount * ps[j].totalProblems
                     - ps[j].hardCount * ps[i].totalProblems)
               > ps[i].totalProblems * ps[j].totalProblems
    IN  /\ an[1].sentence \in {"significant difference", "similar performance"}
        /\ an[1].sentence = "significant difference" <=>
             \E i, j \in 1..Len(ps) : ps[i].totalScore - ps[j].totalScore > 30
        /\ \A i \in 2..Len(an) : an[i].sentence \in {"hard focus", "consistency"}
        /\ (\A i \in 1..Len(ps) : ps[i].totalProblems > 0) =>
             (Has("hard focus") <=> \E i, j \in 1..Len(ps) : Apart(i, j))
        /\ (\E i, j \in 1..Len(ps) : Apart(i, j)) => Has("hard focus")
        /\ Has("consistency") <=> \E i \in 1..Len(ps) : ps[i].consistency > 80

\* min(100, round(distinctActiveDays / windowSize * 100)) over the first
\* windowSize recent submissions of a username, 0 when there is none.
ConsistencyOver(username, windowSize) ==
  LET sampled == recent_user_submissions(username, windowSize)
      distinctActiveDays == Cardinality({sampled[i] \div TicksPerDay : i \in 1..Len(sampled)})
  IN  IF Len(sampled) = 0 THEN 0
      ELSE Min(100, (2 * distinctActiveDays * 100 + windowSize) \div (2 * windowSize))

\* C21: consistency is an integer in 0..100 equal to
\* min(100, round(distinctActiveDays / windowSize * 100)), windowSize being
\* the number of submissions asked of the upstream for the request (50 in
\* analyze-profile, 20 in compare-profiles), and 0 without submissions.
C21_Consistency ==
  /\ (res.op = "analyze" /\ res.status = 200) =>
       /\ res.body.consistency \in 0..100
       /\ res.body.consistency = ConsistencyOver(res.req, 50)
  /\ (res.op = "compare" /\ res.status = 200) =>
       \A i \in 1..Len(res.body.profiles) :
         /\ res.body.profiles[i].consistency \in 0..100
         /\ res.body.profiles[i].consistency
              = ConsistencyOver(res.body.profiles[i].username, 20)

\* C22: for a username whose consistency is the same in both routes, the
\* four score components and the totalScore compare-profiles computes are
\* those analyze-profile computes, whatever the acceptance rate.
C22_SameScore ==
  (res.op = "compare" /\ res.status = 200) =>
    \A i \in 1..Len(res.body.profiles) :
      LET profile == res.body.profiles[i]
          scored == analysisResult(profile.username)
      IN  profile.consistency = scored.consistency =>
            /\ comparePoints(profile.username) = analyzePoints(profile.username)
            /\ profile.totalScore = scored.totalScore

\* The tag names that occur, in name order.
TagNameOrder == <<"Array", "DP", "Graph", "Tree">>

NameRank(name) == CHOOSE n \in 1..Len(TagNameOrder) : TagNameOrder[n] = name

\* C23: strongTopics has at most 3 entries: the first 3 tags of the upstream
\* list put in descending order of solved count, tags of equal count in
\* name order.
C23_StrongTopics ==
  (res.op = "analyze" /\ res.status = 200) =>
    LET tags == upstream[res.req].tags
        strong == res.body.strongTopics
        Before(t, u) ==
          \/ t.problemsSolved > u.problemsSolved
          \/ (t.problemsSolved = u.problemsSolved
                /\ NameRank(t.tagName) < NameRank(u.tagName))
        Place(t) == 1 + Cardinality({j \in 1..Len(tags) : Before(tags[j], t)})
    IN  /\ Len(strong) = Min(3, Len(tags))
        /\ \A i \in 1..Len(tags) :
             Place(tags[i]) <= 3 => strong[Place(tags[i])] = tags[i].tagName

\* C24: weakTopics has at most 3 entries, all of them tags with solved > 0,
\* none twice: as many as there are such tags, up to 3, in ascending order
\* of solved/total, and no tag with solved > 0 that is left out has a lower
\* solved/total than a listed one.
C24_WeakTopics ==
  (res.op = "analyze" /\ res.status = 200) =>
    LET tags == upstream[res.req].tags
        weak == res.body.weakTopics
        eligible == {i \in 1..Len(tags) : tags[i].problemsSolved > 0}
        TagOf(name) == tags[CHOOSE i \in 1..Len(tags) : tags[i].tagName = name]
        RatioLeq(t, u) ==
          t.problemsSolved * u.problemsTotal <= u.problemsSolved * t.problemsTotal
    IN  /\ Len(weak) = Min(3, Cardinality(eligible))
        /\ \A k \in 1..Len(weak) : \E i \in eligible : tags[i].tagName = weak[k]
        /\ \A k, l \in 1..Len(weak) : k # l => weak[k] # weak[l]
        /\ \A k \in 1..(Len(weak) - 1) : RatioLeq(TagOf(weak[k]), TagOf(weak[k + 1]))
        /\ \A k \in 1..Len(weak) : \A i \in eligible :
             (\A l \in 1..Len(weak) : weak[l] # tags[i].tagName) =>
               RatioLeq(TagOf(weak[k]), tags[i])

C24_WeakTopicsWitness ==
  /\ res.op = "analyze"
  /\ res.status = 200
  /\ \E i \in 1..Len(upstream[res.req].tags) : upstream[res.req].tags[i].problemsSolved = 0
  /\ Len(res.body.weakTopics) = 3
  /\ res.body.weakTopics[1] = "DP"

\* The topic names that are linked, in name order.
TopicNameOrder == <<"arrays", "Zeta">>

TopicRank(name) == CHOOSE n \in 1..Len(TopicNameOrder) : TopicNameOrder[n] = name

\* The ids of the records of a user that carry a topic.
RecordsCarrying(userId, name) ==
  {id \in DOMAIN problems :
     /\ problems[id].userId = userId
     /\ \E l \in DOMAIN problemTopics :
          problemTopics[l].problemId = id /\ problemTopics[l].topicName = name}

\* C25: topicDistribution has one entry for each topic that one of the
\* user's records carries, its count is the number of the user's records
\* that carry the topic, the counts descend, and entries of equal count are
\* in name order.
C25_TopicDistribution ==
  StatsSent =>
    LET td == res.body.topicDistribution
        attached == {problemTopics[l].topicName : l \in
                       {x \in DOMAIN problemTopics :
                          RecordsCarrying(res.userId, problemTopics[x].topicName) # {}}}
    IN  /\ {td[i].name : i \in 1..Len(td)} = attached
        /\ Len(td) = Cardinality(attached)
        /\ \A i \in 1..Len(td) :
             td[i].count = Cardinality(RecordsCarrying(res.userId, td[i].name))
        /\ \A i \in 1..(Len(td) - 1) :
             \/ td[i].count > td[i + 1].count
             \/ (td[i].count = td[i + 1].count
                   /\ TopicRank(td[i].name) < TopicRank(td[i + 1].name))

\* C27: no two topics of the store have names that are equal ignoring case.
C27_UniqueTopicNames ==
  \A i, j \in DOMAIN topics :
    i # j => toLowerCase(topics[i].name) # toLowerCase(topics[j].name)

LinksOf(ptMap, problemId) == {l \in DOMAIN ptMap : ptMap[l].problemId = problemId}

\* C30: after a PUT answered 200 whose body has the topics array T, the
\* names linked to the problem are those of T, each linked once, and the
\* response lists them; when they already were those of T the topics and
\* the links are left as they are; a PUT answered 200 without a topics
\* array leaves the links as they are.
C30_PutTopics ==
  [][\A id \in {i \in 1..MaxProblems : res'.op = "putProblem" /\ res'.status = 200} :
       /\ \A ts \in TopicInputs :
            (PutProblem(1, id, [topics |-> ts]) /\ res'.status = 200) =>
              /\ {problemTopics'[l].topicName : l \in LinksOf(problemTopics', id)} = Range(ts)
              /\ Cardinality(LinksOf(problemTopics', id)) = Cardinality(Range(ts))
              /\ Range(res'.topics) = Range(ts)
              /\ Len(res'.topics) = Cardinality(Range(ts))
              /\ ({problemTopics[l].topicName : l \in LinksOf(problemTopics, id)} = Range(ts)) =>
                   topicVars' = topicVars
       /\ (PutProblem(1, id, [dateSolved |-> DateOnly(0)]) /\ res'.status = 200) =>
            /\ topicVars' = topicVars
            /\ res'.topics = getProblemTopics(id)]_vars

C30_PutTopicsWitness ==
  /\ res.op = "putProblem"
  /\ res.status = 200
  /\ res.topics = <<"Zeta", "arrays">>
  /\ \E id \in DOMAIN problems : getProblemTopics(id) = <<"Zeta", "arrays">>

\* C26: recentProblems of a stats response has min(5, totalSolved) entries,
\* each a different record of the user, in descending order of dateSolved;
\* no record left out is dated after a listed one; each entry has the topic
\* names linked to its problem, each once; and a stats request that follows
\* one of the same user is answered with the same entries.
C26_RecentProblems ==
  [][(res'.op = "stats" /\ res'.status = 200) =>
       LET rp == res'.body.recentProblems
           mine == {id \in DOMAIN problems' : problems'[id].userId = res'.userId}
           listed == {rp[k].id : k \in 1..Len(rp)}
       IN  /\ Len(rp) = Min(5, res'.body.totalSolved)
           /\ res'.body.totalSolved = Cardinality(mine)
           /\ listed \subseteq mine
           /\ Cardinality(listed) = Len(rp)
           /\ \A k \in 1..(Len(rp) - 1) :
                problems'[rp[k].id].dateSolved >= problems'[rp[k + 1].id].dateSolved
           /\ \A j \in mine \ listed : \A k \in 1..Len(rp) :
                problems'[j].dateSolved <= problems'[rp[k].id].dateSolved
           /\ \A k \in 1..Len(rp) :
                /\ Range(rp[k].topics) =
                     {problemTopics'[l].topicName : l \in LinksOf(problemTopics', rp[k].id)}
                /\ Len(rp[k].topics) = Cardinality(LinksOf(problemTopics', rp[k].id))
           /\ (res.op = "stats" /\ res.status = 200 /\ res.userId = res'.userId) =>
                rp = res.body.recentProblems]_vars

C26_RecentProblemsWitness ==
  /\ StatsSent
  /\ res.body.totalSolved = 6
  /\ Len(res.body.recentProblems) = 5
  /\ \E k \in 1..5 : res.body.recentProblems[k].topics = <<"Arrays", "Graphs">>
  /\ \E k \in 1..5 : \E j \in DOMAIN problems :
       /\ \A l \in 1..5 : res.body.recentProblems[l].id # j
       /\ problems[j].dateSolved = problems[res.body.recentProblems[k].id].dateSolved

\* C28: the userId of a problem never changes, and a PUT or a DELETE of a
\* user for a problem of another user is answered 403 and leaves the
\* problems and the links as they are.
C28_Ownership ==
  [][/\ \A id \in (DOMAIN problems) \cap (DOMAIN problems') :
          problems'[id].userId = problems[id].userId
     /\ \A u \in Users : \A id \in {i \in DOMAIN problems : problems[i].userId # u} :
          /\ DeleteProblem(u, id) =>
               (res'.status = 403 /\ problems' = problems /\ topicVars' = topicVars)
          /\ \A b \in PutBodies(Users, DifficultyInputs, PlatformInputs, {DateOnly(0)}) :
               PutProblem(u, id, b) =>
                 (res'.status = 403 /\ problems' = problems /\ topicVars' = topicVars)]_vars

====
